---- MODULE Spec2Model ----
(***************************************************************************)
(* Lifecycle of the multischeduler wrapper                                 *)
(* (pkg/scheduler/multischeduler/generic.go): NewScheduler builds the      *)
(* handle around the external scheduler core, Run starts the informers,    *)
(* waits for the informer factory's caches and blocks on the stop channel. *)
(* The environment closes the stop channel, cancels the run context and    *)
(* lets the informers list their resources.                                *)
(***************************************************************************)
EXTENDS Naturals, FiniteSets

\* Number of informers the scheduler core registers with the informer factory.
MaxFactoryFeeds == 2

\* The pod informer (Config.PodInformer), run on its own by Run.
PodFeed == 0

\* The informers held by Config.InformerFactory.
FactoryFeeds == 1..MaxFactoryFeeds

Feeds == {PodFeed} \cup FactoryFeeds

\* Number of feeds registered with the sync gate, one marking task each.
MaxGateFeeds == 2

\* Number of MarkSynced calls one task makes on its feed at most.
MaxMarks == 2

GateFeeds == 1..MaxGateFeeds

\* Errors the external constructor scheduler.New may return.
CoreErrors == {"errA", "errB"}

VARIABLES
    cfg,            \* the caller's schedulerappconfig.Config; TRUE = field is non-nil
    stopClosed,     \* the stop channel has been closed
    ctxDone,        \* the caller's context is done
    newPc,          \* position of NewScheduler
    probe,          \* result of ServerResourcesForGroupVersion
    recordFactory,  \* the recorder factory getRecorderFactory returned
    ccBroadcaster,  \* cc.Broadcaster of NewScheduler's local configuration
    coreCalls,      \* number of invocations of scheduler.New
    coreResult,     \* outcome of scheduler.New
    coreRefs,       \* feeds whose references scheduler.New was handed
    sched,          \* the *Scheduler NewScheduler returned ("nil" or "handle")
    schedConfig,    \* sched.Config
    newErr,         \* the error NewScheduler returned
    pc,             \* position of Run
    runResult,      \* what Run returned
    recording,      \* StartRecordingToSink task: "none", "live", "exited"
    feedState,      \* per feed: "notstarted", "running", "synced"
    task,           \* per feed, its informer goroutine: "none", "live", "exited"
    waitSet,        \* informers WaitForCacheSync of the factory still has to wait for
    stopBeforeSync, \* the stop channel closed while some feed was unsynced
    ctxBeforeSync,  \* the context became done while some feed was unsynced
    stopBeforeRun,  \* the stop channel was closed when Run was called
    readyClean,     \* the last feed synced with the context live and the stop channel open
    coreLoop,       \* the scheduling loop of the embedded core: "notstarted", "running"
    gateRegistered, \* SyncGate: the registered feeds
    gateBits,       \* SyncGate: the feeds marked synced
    gateLock,       \* SyncGate: 0, or the task holding the mutex
    markPc,         \* per marking task: "idle", "locked", "read"
    markLocal,      \* per marking task: the bits it read under the mutex
    markCount,      \* per marking task: completed MarkSynced calls
    gateWait,       \* WaitForSync: "idle", "waiting", "true", "false"
    gateCancel,     \* the cancel signal of WaitForSync has fired
    gateCancelFirst \* it fired while some registered feed was unmarked

gateVars == <<gateRegistered, gateBits, gateLock, markPc, markLocal, markCount,
              gateWait, gateCancel, gateCancelFirst>>

mainVars == <<cfg, stopClosed, ctxDone, newPc, probe, recordFactory, ccBroadcaster,
              coreCalls, coreResult, coreRefs, sched, schedConfig, newErr, pc,
              runResult, recording, feedState, task, waitSet, stopBeforeSync,
              ctxBeforeSync, stopBeforeRun, readyClean, coreLoop>>

vars == <<gateVars, cfg, stopClosed, ctxDone, newPc, probe, recordFactory, ccBroadcaster,
          coreCalls, coreResult, coreRefs, sched, schedConfig, newErr, pc,
          runResult, recording, feedState, task, waitSet, stopBeforeSync,
          ctxBeforeSync, stopBeforeRun, readyClean, coreLoop>>

newVars == <<newPc, probe, recordFactory, ccBroadcaster, coreCalls, coreResult,
             coreRefs, sched, schedConfig, newErr>>

runVars == <<pc, runResult, waitSet, stopBeforeRun>>

histVars == <<stopBeforeSync, ctxBeforeSync, readyClean>>

\* Broadcaster is "nil", "caller" (set by the caller) or "new" (made by
\* getRecorderFactory); every other field is TRUE when non-nil.
Configs == [Client : BOOLEAN, InformerFactory : BOOLEAN, PodInformer : BOOLEAN,
            EventClient : BOOLEAN, CoreBroadcaster : BOOLEAN,
            Broadcaster : {"nil", "caller"}]

AllSynced == \A f \in Feeds : feedState[f] = "synced"

\* The sync gate before any feed is registered.
GateIdle ==
    /\ gateRegistered = {}
    /\ gateBits = {}
    /\ gateLock = 0
    /\ markPc = [f \in GateFeeds |-> "idle"]
    /\ markLocal = [f \in GateFeeds |-> {}]
    /\ markCount = [f \in GateFeeds |-> 0]
    /\ gateWait = "idle"
    /\ gateCancel = FALSE
    /\ gateCancelFirst = FALSE

\* NewScheduler has just been entered and Run has not been called.
MainIdle ==
    /\ stopClosed = FALSE
    /\ ctxDone = FALSE
    /\ newPc = "start"
    /\ probe = "none"
    /\ recordFactory = "none"
    /\ ccBroadcaster = cfg.Broadcaster
    /\ coreCalls = 0
    /\ coreResult = "none"
    /\ coreRefs = {}
    /\ sched = "nil"
    /\ schedConfig = cfg
    /\ newErr = "none"
    /\ pc = "idle"
    /\ runResult = "none"
    /\ recording = "none"
    /\ feedState = [f \in Feeds |-> "notstarted"]
    /\ task = [f \in Feeds |-> "none"]
    /\ waitSet = {}
    /\ stopBeforeSync = FALSE
    /\ ctxBeforeSync = FALSE
    /\ stopBeforeRun = FALSE
    /\ readyClean = FALSE
    /\ coreLoop = "notstarted"

Init ==
    /\ cfg \in Configs
    /\ GateIdle
    /\ MainIdle

(***************************************************************************)
(* Environment                                                             *)
(***************************************************************************)

\* The owner of the stop channel closes it (once).
CloseStop ==
    /\ ~stopClosed
    /\ stopClosed' = TRUE
    /\ stopBeforeSync' = ~AllSynced
    /\ UNCHANGED <<gateVars, coreLoop, cfg, ctxDone, newVars, runVars, recording, feedState, task,
                   ctxBeforeSync, readyClean>>

\* The caller's context is cancelled or times out.
CtxCancel ==
    /\ ~ctxDone
    /\ ctxDone' = TRUE
    /\ ctxBeforeSync' = ~AllSynced
    /\ UNCHANGED <<gateVars, coreLoop, cfg, stopClosed, newVars, runVars, recording, feedState, task,
                   stopBeforeSync, readyClean>>

\* An informer finishes its initial list: HasSynced turns true.
FeedSync(f) ==
    /\ task[f] = "live"
    /\ feedState[f] = "running"
    /\ feedState' = [feedState EXCEPT ![f] = "synced"]
    /\ readyClean' = (readyClean \/ (AllSynced' /\ ~ctxDone /\ ~stopClosed))
    /\ UNCHANGED <<gateVars, coreLoop, cfg, stopClosed, ctxDone, newVars, runVars, recording, task,
                   stopBeforeSync, ctxBeforeSync>>

TaskStop_Ctx == stopClosed \/ ctxDone

\* The channel an informer goroutine was given to stop on (lines 84, 85).
TaskStop == stopClosed

\* An informer goroutine observes its stop channel and returns.
FeedExit(f) ==
    /\ task[f] = "live"
    /\ TaskStop
    /\ task' = [task EXCEPT ![f] = "exited"]
    /\ UNCHANGED <<gateVars, coreLoop, cfg, stopClosed, ctxDone, newVars, runVars, recording,
                   feedState, histVars>>

RecordingStop_Ctx == ctxDone

\* The channel StartRecordingToSink was given to stop on (line 80).
RecordingStop == stopClosed

\* The recording goroutine observes the stop channel it was given (line 80).
RecordingExit ==
    /\ recording = "live"
    /\ RecordingStop
    /\ recording' = "exited"
    /\ UNCHANGED <<gateVars, coreLoop, cfg, stopClosed, ctxDone, newVars, runVars, feedState, task,
                   histVars>>

(***************************************************************************)
(* NewScheduler                                                            *)
(***************************************************************************)

RecorderFactoryFor_Inverted(p) == IF p = "ok" THEN "compat" ELSE "broadcaster"

\* getRecorderFactory: the factory returned for a probe result (err == nil
\* selects the broadcaster-backed factory).
RecorderFactoryFor(p) == IF p = "ok" THEN "broadcaster" ELSE "compat"

\* cc.Complete() and getRecorderFactory(&completedConfig).  The completed
\* configuration points at NewScheduler's own copy of cc, so the broadcaster
\* made on a successful probe is stored in that copy.  A nil Client panics
\* at cc.Client.Discovery(), a nil EventClient at cc.EventClient.Events("").
NewGetRecorderFactory ==
    /\ newPc = "start"
    /\ IF ~cfg.Client
         THEN /\ newPc' = "panicked"
              /\ UNCHANGED <<probe, recordFactory, ccBroadcaster>>
         ELSE \E p \in {"ok", "err"} :
                /\ probe' = p
                /\ IF p = "ok" /\ ~cfg.EventClient
                     THEN /\ newPc' = "panicked"
                          /\ UNCHANGED <<recordFactory, ccBroadcaster>>
                     ELSE /\ newPc' = "probed"
                          /\ recordFactory' = RecorderFactoryFor(p)
                          /\ ccBroadcaster' = IF p = "ok" THEN "new" ELSE ccBroadcaster
    /\ UNCHANGED <<gateVars, coreLoop, cfg, stopClosed, ctxDone, coreCalls, coreResult, coreRefs,
                   sched, schedConfig, newErr, runVars, recording, feedState,
                   task, histVars>>

CoreFeedArgs_PodOnly(c) == IF c.PodInformer THEN {PodFeed} ELSE {}

\* The feeds behind cc.InformerFactory and cc.PodInformer, the second and
\* third arguments of scheduler.New.
CoreFeedArgs(c) ==
    (IF c.PodInformer THEN {PodFeed} ELSE {})
        \cup (IF c.InformerFactory THEN FactoryFeeds ELSE {})

\* What scheduler.New can do with its arguments: it dereferences the informer
\* factory and the pod informer, and it may create recorders, which with the
\* compatibility factory dereferences cc.CoreBroadcaster.
CoreOutcomes(c, rf) ==
    IF ~c.InformerFactory \/ ~c.PodInformer
    THEN CoreErrors \cup {"panic"}
    ELSE {"ok"} \cup CoreErrors
           \cup (IF rf = "compat" /\ ~c.CoreBroadcaster THEN {"panic"} ELSE {})

\* sched, err := scheduler.New(cc.Client, cc.InformerFactory, cc.PodInformer, ...)
NewCreate ==
    /\ newPc = "probed"
    /\ coreCalls' = coreCalls + 1
    /\ coreRefs' = CoreFeedArgs(cfg)
    /\ \E r \in CoreOutcomes(cfg, recordFactory) :
         /\ coreResult' = r
         /\ newPc' = IF r = "panic" THEN "panicked" ELSE "created"
    /\ UNCHANGED <<gateVars, coreLoop, cfg, stopClosed, ctxDone, probe, recordFactory, ccBroadcaster,
                   sched, schedConfig, newErr, runVars, recording, feedState,
                   task, histVars>>

HandleConfig_CallerCopy(c, b) == c

\* Config: cc of the returned handle: the caller's configuration with the
\* broadcaster getRecorderFactory stored through &completedConfig.
HandleConfig(c, b) == [c EXCEPT !.Broadcaster = b]

LaunchedByNew_All == Feeds

\* The informers NewScheduler starts: none, lines 46-74 hold no go statement
\* and no call of Run or Start.
LaunchedByNew == {}

ReturnedErr_Wrapped(e) == "wrapped"

\* return nil, err
ReturnedErr(e) == e

\* if err != nil { return nil, err }; return &Scheduler{Config: cc, ...}, nil
NewReturn ==
    /\ newPc = "created"
    /\ newPc' = "returned"
    /\ IF coreResult # "ok"
         THEN /\ sched' = "nil"
              /\ newErr' = ReturnedErr(coreResult)
              /\ UNCHANGED schedConfig
         ELSE /\ sched' = "handle"
              /\ newErr' = "nil"
              /\ schedConfig' = HandleConfig(cfg, ccBroadcaster)
    /\ task' = [f \in Feeds |-> IF f \in LaunchedByNew THEN "live" ELSE task[f]]
    /\ feedState' = [f \in Feeds |->
                       IF f \in LaunchedByNew THEN "running" ELSE feedState[f]]
    /\ UNCHANGED <<gateVars, coreLoop, cfg, stopClosed, ctxDone, probe, recordFactory,
                   ccBroadcaster, coreCalls, coreResult, coreRefs, runVars,
                   recording, histVars>>

(***************************************************************************)
(* Run                                                                     *)
(***************************************************************************)

\* cache.WaitForCacheSync(stopCh, cacheSyncs...): the results it can return
\* now (none: it keeps polling).  It polls until every function of cacheSyncs
\* reports true and then returns true; the condition is evaluated before the
\* channel is looked at, so with no cacheSyncs it returns true at once.  While
\* polling, a closed stopCh makes it return false.
CacheSyncOutcomes(stopCh, cacheSyncs) ==
    IF \A f \in cacheSyncs : feedState[f] = "synced" THEN {TRUE}
    ELSE IF stopCh THEN {FALSE}
    ELSE {}

\* The caller invokes Run on the handle NewScheduler returned.
RunCall ==
    /\ newPc = "returned"
    /\ sched = "handle"
    /\ pc = "idle"
    /\ pc' = "recording"
    /\ stopBeforeRun' = stopClosed
    /\ UNCHANGED <<gateVars, coreLoop, cfg, stopClosed, ctxDone, newVars, runResult, waitSet,
                   recording, feedState, task, histVars>>

RecordingWanted_Either(c) == c.Broadcaster # "nil" \/ c.EventClient

\* if sched.Config.Broadcaster != nil && sched.Config.EventClient != nil
RecordingWanted(c) == c.Broadcaster # "nil" /\ c.EventClient

\* Prepare the event broadcaster: StartRecordingToSink(sched.StopCh).
RunStartRecording ==
    /\ pc = "recording"
    /\ pc' = "podinformer"
    /\ recording' = IF RecordingWanted(schedConfig) THEN "live" ELSE recording
    /\ UNCHANGED <<gateVars, coreLoop, cfg, stopClosed, ctxDone, newVars, runResult, waitSet,
                   stopBeforeRun, feedState, task, histVars>>

\* go sched.Config.PodInformer.Informer().Run(sched.StopCh)
RunPodInformer ==
    /\ pc = "podinformer"
    /\ pc' = "factorystart"
    /\ task' = [task EXCEPT ![PodFeed] = "live"]
    /\ feedState' = [feedState EXCEPT ![PodFeed] = "running"]
    /\ UNCHANGED <<gateVars, coreLoop, cfg, stopClosed, ctxDone, newVars, runResult, waitSet,
                   stopBeforeRun, recording, histVars>>

InformersToStart_None == {}

\* The informers InformerFactory.Start launches: those of the factory that
\* are not started yet.
InformersToStart == {f \in FactoryFeeds : task[f] = "none"}

\* sched.Config.InformerFactory.Start(sched.StopCh): one goroutine for every
\* informer of the factory that is not started yet.
RunFactoryStart ==
    /\ pc = "factorystart"
    /\ pc' = "factorysnapshot"
    /\ task' = [f \in Feeds |-> IF f \in InformersToStart THEN "live" ELSE task[f]]
    /\ feedState' = [f \in Feeds |->
                  IF f \in InformersToStart THEN "running" ELSE feedState[f]]
    /\ UNCHANGED <<gateVars, coreLoop, cfg, stopClosed, ctxDone, newVars, runResult, waitSet,
                   stopBeforeRun, recording, histVars>>

\* The informers InformerFactory.WaitForCacheSync waits for: those the
\* factory has started.  The pod informer is not one of them.
StartedInformers == {f \in FactoryFeeds : task[f] # "none"}

\* InformerFactory.WaitForCacheSync, first half: take the started informers.
RunFactorySnapshot ==
    /\ pc = "factorysnapshot"
    /\ pc' = IF StartedInformers = {} THEN "cachewait" ELSE "factorywait"
    /\ waitSet' = StartedInformers
    /\ UNCHANGED <<gateVars, coreLoop, cfg, stopClosed, ctxDone, newVars, runResult, stopBeforeRun,
                   recording, feedState, task, histVars>>

FactoryWaitStop_Ctx == ctxDone

\* The channel handed to InformerFactory.WaitForCacheSync: sched.StopCh.
FactoryWaitStop == stopClosed

\* InformerFactory.WaitForCacheSync, second half: one
\* cache.WaitForCacheSync(stopCh, informer.HasSynced) per informer, in map
\* order; the results are dropped by Run.
RunFactoryWait ==
    /\ pc = "factorywait"
    /\ \E f \in waitSet :
         /\ CacheSyncOutcomes(FactoryWaitStop, {f}) # {}
         /\ waitSet' = waitSet \ {f}
         /\ pc' = IF waitSet' = {} THEN "cachewait" ELSE pc
    /\ UNCHANGED <<gateVars, coreLoop, cfg, stopClosed, ctxDone, newVars, runResult, stopBeforeRun,
                   recording, feedState, task, histVars>>

\* The informers' HasSynced functions handed to cache.WaitForCacheSync at
\* line 90: none.
RunCacheSyncs == {}

RunStartsCoreLoop_Upstream == TRUE

\* Whether Run, once the caches are waited for, calls the Run of the
\* embedded *scheduler.Scheduler: it does not, lines 77-95 hold no such call
\* and the method of the wrapper shadows the promoted one.
RunStartsCoreLoop == FALSE

\* if !cache.WaitForCacheSync(ctx.Done()) { return fmt.Errorf(...) }
RunCacheWait ==
    /\ pc = "cachewait"
    /\ \E r \in CacheSyncOutcomes(ctxDone, RunCacheSyncs) :
         IF r THEN /\ pc' = "block"
                   /\ coreLoop' = IF RunStartsCoreLoop THEN "running" ELSE coreLoop
                   /\ UNCHANGED runResult
              ELSE /\ pc' = "done"
                   /\ runResult' = "failed to wait cache sync"
                   /\ UNCHANGED coreLoop
    /\ UNCHANGED <<gateVars, cfg, stopClosed, ctxDone, newVars, waitSet, stopBeforeRun,
                   recording, feedState, task, histVars>>

StopChReceivable_Always == TRUE

StopChReceivable_Ctx == ctxDone

\* <-sched.StopCh can proceed: the channel is closed.
StopChReceivable == stopClosed

\* <-sched.StopCh; return nil
RunBlock ==
    /\ pc = "block"
    /\ StopChReceivable
    /\ pc' = "done"
    /\ runResult' = "nil"
    /\ UNCHANGED <<gateVars, coreLoop, cfg, stopClosed, ctxDone, newVars, waitSet, stopBeforeRun,
                   recording, feedState, task, histVars>>

(***************************************************************************)
(* SyncGate (section 4.2 of the specification): Register, MarkSynced and   *)
(* WaitForSync.  Run reaches it through InformerFactory.WaitForCacheSync   *)
(* (line 88) and drops what it returns.                                    *)
(***************************************************************************)

GateReady_Any == gateBits # {} \/ gateRegistered = {}

\* The gate reports ready: every registered feed has been marked synced.
GateReady == gateRegistered \subseteq gateBits

\* Register(feedID): adds a tracked feed; nothing once WaitForSync has begun.
\* A feed registered after the cancel signal fired is unmarked at that time.
Register(f) ==
    /\ gateWait = "idle"
    /\ f \notin gateRegistered
    /\ gateRegistered' = gateRegistered \cup {f}
    /\ gateCancelFirst' = (gateCancelFirst \/ (gateCancel /\ f \notin gateBits))
    /\ UNCHANGED <<mainVars, gateBits, gateLock, markPc, markLocal, markCount,
                   gateWait, gateCancel>>

LockFree_Unsynchronized(t) == TRUE

\* Task t can take the mutex of the gate.
LockFree(t) == gateLock = 0

\* MarkSynced(f), called by the task of feed f: take the mutex.
MarkLock(f) ==
    /\ f \in gateRegistered
    /\ markPc[f] = "idle"
    /\ markCount[f] < MaxMarks
    /\ LockFree(f)
    /\ gateLock' = f
    /\ markPc' = [markPc EXCEPT ![f] = "locked"]
    /\ UNCHANGED <<mainVars, gateRegistered, gateBits, markLocal, markCount,
                   gateWait, gateCancel, gateCancelFirst>>

\* MarkSynced(f): read the bits.
MarkRead(f) ==
    /\ markPc[f] = "locked"
    /\ markLocal' = [markLocal EXCEPT ![f] = gateBits]
    /\ markPc' = [markPc EXCEPT ![f] = "read"]
    /\ UNCHANGED <<mainVars, gateRegistered, gateBits, gateLock, markCount,
                   gateWait, gateCancel, gateCancelFirst>>

\* MarkSynced(f): write the bits with f set, signal a waiter for which the
\* gate became ready, and release the mutex.
MarkWrite(f) ==
    /\ markPc[f] = "read"
    /\ gateBits' = markLocal[f] \cup {f}
    /\ gateLock' = IF gateLock = f THEN 0 ELSE gateLock
    /\ markPc' = [markPc EXCEPT ![f] = "idle"]
    /\ markCount' = [markCount EXCEPT ![f] = @ + 1]
    /\ UNCHANGED <<mainVars, gateRegistered, markLocal, gateCancel, gateCancelFirst>>
    /\ gateWait' = IF gateWait = "waiting" /\ GateReady' THEN "true" ELSE gateWait

\* The cancel signal fires; a waiter for which the gate is not ready
\* returns false.
GateCancel ==
    /\ ~gateCancel
    /\ gateCancel' = TRUE
    /\ gateCancelFirst' = ~GateReady
    /\ gateWait' = IF gateWait = "waiting" /\ ~GateReady THEN "false" ELSE gateWait
    /\ UNCHANGED <<mainVars, gateRegistered, gateBits, gateLock, markPc, markLocal,
                   markCount>>

\* WaitForSync(cancelSignal) is called: it returns at once when the gate was
\* ready before the cancel signal fired or when the cancel signal has fired
\* first, and blocks otherwise.
WaitForSync ==
    /\ gateWait = "idle"
    /\ gateWait' = IF GateReady /\ ~gateCancelFirst THEN "true"
                   ELSE IF gateCancel THEN "false"
                   ELSE "waiting"
    /\ UNCHANGED <<mainVars, gateRegistered, gateBits, gateLock, markPc, markLocal,
                   markCount, gateCancel, gateCancelFirst>>

GateNext ==
    \/ \E f \in GateFeeds : Register(f)
    \/ \E f \in GateFeeds : MarkLock(f)
    \/ \E f \in GateFeeds : MarkRead(f)
    \/ \E f \in GateFeeds : MarkWrite(f)
    \/ GateCancel
    \/ WaitForSync

\* A configuration with every field set but the broadcaster.
CompleteConfig ==
    [Client |-> TRUE, InformerFactory |-> TRUE, PodInformer |-> TRUE,
     EventClient |-> TRUE, CoreBroadcaster |-> TRUE, Broadcaster |-> "nil"]

GateInit ==
    /\ cfg = CompleteConfig
    /\ GateIdle
    /\ MainIdle

\* The sync gate on its own, with its feeds' tasks and its waiter.
GateSpec == GateInit /\ [][GateNext]_vars

(***************************************************************************)
(* Specifications                                                          *)
(***************************************************************************)

NewScheduler == NewGetRecorderFactory \/ NewCreate \/ NewReturn

Run == \/ RunStartRecording
       \/ RunPodInformer
       \/ RunFactoryStart
       \/ RunFactorySnapshot
       \/ RunFactoryWait
       \/ RunCacheWait
       \/ RunBlock

Next ==
    \/ CloseStop
    \/ CtxCancel
    \/ \E f \in Feeds : FeedSync(f)
    \/ \E f \in Feeds : FeedExit(f)
    \/ RecordingExit
    \/ NewGetRecorderFactory
    \/ NewCreate
    \/ NewReturn
    \/ RunCall
    \/ RunStartRecording
    \/ RunPodInformer
    \/ RunFactoryStart
    \/ RunFactorySnapshot
    \/ RunFactoryWait
    \/ RunCacheWait
    \/ RunBlock

Spec == Init /\ [][Next]_vars

\* The goroutine executing NewScheduler and Run keeps running, and so do the
\* goroutines of the informers and of the recorder once their stop channel
\* is closed.  Nothing makes the environment close the stop channel, cancel
\* the context or let an informer sync.
FairSpec ==
    /\ Spec
    /\ WF_vars(NewScheduler)
    /\ WF_vars(Run)
    /\ WF_vars(\E f \in Feeds : FeedExit(f))
    /\ WF_vars(RecordingExit)

(***************************************************************************)
(* Properties                                                              *)
(***************************************************************************)

SyncTimeout == "failed to wait cache sync"

RunReturned == pc = "done"

\* C1: if Run returns nil, every tracked feed (the pod informer and the
\* informers of the factory) is synced at the moment of return.  A synced
\* feed stays synced, so the state predicate says the same as the step.
C1_NilOnlyAfterSync == (RunReturned /\ runResult = "nil") => AllSynced

\* C2: if the context became done before all feeds synced and the stop
\* channel is still open, Run does not get past its sync wait except by
\* returning the cache-sync error: it never sits in the final block on the
\* stop channel and never returns anything else.
C2_CtxDoneFailsSync ==
    (ctxBeforeSync /\ ~stopClosed /\ pc \in {"block", "done"})
        => (RunReturned /\ runResult = SyncTimeout)

\* C3: if the stop channel closed before the feeds synced and the context
\* was cancelled before the feeds synced, in either order, what Run returns
\* is the cache-sync error, not nil.
C3_StopAndCancelGiveError ==
    (stopBeforeSync /\ ctxBeforeSync /\ RunReturned) => runResult = SyncTimeout

\* C4: Run returns only with an error or after the stop channel has been
\* closed: it has not returned nil while the stop channel is open.
C4_NilOnlyAfterStop == (RunReturned /\ runResult # SyncTimeout) => stopClosed

C4_Witness == RunReturned /\ runResult = "nil" /\ stopClosed /\ ~stopBeforeRun

\* C5: when all feeds synced with the context live and the stop channel
\* open, Run does not return while the stop channel stays open, and once the
\* stop channel is closed Run eventually returns nil.
C5_BlocksThenReturnsNil ==
    /\ []((readyClean /\ ~stopClosed) => ~RunReturned)
    /\ ((readyClean /\ stopClosed) ~> (RunReturned /\ runResult = "nil"))

C5_Witness == readyClean /\ ~ctxBeforeSync /\ RunReturned /\ runResult = "nil"

\* C6: once the stop channel is closed, a Run that has been called
\* eventually returns, whatever the feeds and the context do, also when the
\* stop channel was closed before the call.
C6_StopEndsRun == (stopClosed /\ pc # "idle") ~> RunReturned

C6_Witness == RunReturned /\ stopBeforeRun /\ ~AllSynced /\ ~ctxDone

C8_IncompleteConfigRejected ==
    (~cfg.Client \/ ~cfg.InformerFactory \/ ~cfg.PodInformer) =>
        /\ coreCalls = 0
        /\ newPc \in {"returned", "panicked"} =>
              (newPc = "returned" /\ newErr = "ConfigurationError")

\* C9: when scheduler.New fails, NewScheduler returns a nil handle and the
\* very error scheduler.New returned, has called scheduler.New once, and no
\* informer or recording task has been started.
C9_CoreErrorPropagated ==
    (newPc = "returned" /\ coreResult \in CoreErrors) =>
        /\ sched = "nil"
        /\ newErr = coreResult
        /\ coreCalls = 1
        /\ recording = "none"
        /\ \A f \in Feeds : task[f] = "none" /\ feedState[f] = "notstarted"

C9_Witness == newPc = "returned" /\ coreResult = "errB" /\ probe = "ok"

\* C10: the recorder factory getRecorderFactory returned is the
\* broadcaster-backed one exactly when the probe returned no error and the
\* compatibility one when it returned an error; after a failed probe
\* NewScheduler returns what scheduler.New decides: the handle and no error
\* when scheduler.New succeeds, and never an error of the probe.
C10_FactoryFollowsProbe ==
    /\ recordFactory # "none" =>
         /\ probe = "ok" => recordFactory = "broadcaster"
         /\ probe = "err" => recordFactory = "compat"
    /\ (newPc = "returned" /\ probe = "err") =>
         /\ recordFactory = "compat"
         /\ coreResult = "ok" => (sched = "handle" /\ newErr = "nil")
         /\ coreResult # "ok" => newErr = coreResult

C10_Witness ==
    newPc = "returned" /\ probe = "err" /\ recordFactory = "compat" /\ sched = "handle"

\* Run is past the recording step of lines 79-81.
PastRecording == pc \notin {"idle", "recording"}

\* Run has reached the wait for cache sync of line 88 or is past it.
AtOrPastSyncWait == pc \in {"factorysnapshot", "factorywait", "cachewait", "block", "done"}

\* C11: cancelling the context alone stops no background task: while the
\* stop channel is open no informer goroutine and no recording goroutine has
\* exited, the context done or not, and the step at which the context
\* becomes done changes no task.
C11_CancelStopsNoTask ==
    /\ [](~stopClosed =>
            /\ \A f \in Feeds : task[f] # "exited"
            /\ recording # "exited")
    /\ [][ctxDone' # ctxDone =>
            (task' = task /\ recording' = recording /\ feedState' = feedState)]_vars

C11_Witness ==
    /\ ctxDone /\ ~stopClosed /\ pc = "block"
    /\ \A f \in Feeds : task[f] = "live"
    /\ recording = "live"

\* C13: NewScheduler does not return a handle and a nil error while the stop
\* channel is open.
C13_NewReturnsOnlyAfterStop ==
    (newPc = "returned" /\ newErr = "nil" /\ sched = "handle") => stopClosed

\* C14: when Run begins the wait for cache sync, and ever after, the pod
\* informer and every informer of the factory have been launched: no feed
\* is in the not-started state.
C14_LaunchedBeforeWait ==
    AtOrPastSyncWait =>
        \A f \in Feeds : task[f] # "none" /\ feedState[f] # "notstarted"

C14_Witness ==
    /\ pc = "factorysnapshot"
    /\ \A f \in Feeds : task[f] = "live" /\ feedState[f] = "running"

\* C15: Run starts recording exactly when the handle's configuration has a
\* broadcaster and an event client; recording is started before any
\* informer is launched; and the recording step always continues with the
\* launch of the pod informer, without making Run return.
C15_RecordingIffConfigured ==
    /\ [](PastRecording =>
            (recording # "none" <=>
                (schedConfig.Broadcaster # "nil" /\ schedConfig.EventClient)))
    /\ [](~PastRecording =>
            (recording = "none" /\ \A f \in Feeds : task[f] = "none"))
    /\ [][pc = "recording" /\ pc' # pc =>
            (pc' = "podinformer" /\ runResult' = "none")]_vars

C15_Witness ==
    /\ pc = "podinformer" /\ recording = "live"
    /\ schedConfig.Broadcaster = "caller"
    /\ \A f \in Feeds : task[f] = "none"

\* C16: every background task Run launched stops on the handle's stop
\* channel and on nothing else: a task exits only at a step at which the
\* stop channel is closed, and once the stop channel is closed with tasks
\* live, eventually none of them is live any more (an exited task is never
\* started again).
C16_StopChannelEndsTasks ==
    /\ [][(\E f \in Feeds : task'[f] = "exited" /\ task[f] # "exited") => stopClosed]_vars
    /\ [][(recording' = "exited" /\ recording # "exited") => stopClosed]_vars
    /\ (stopClosed /\ (recording = "live" \/ \E f \in Feeds : task[f] = "live"))
          ~> (recording # "live" /\ \A f \in Feeds : task[f] # "live")

C16_Witness ==
    /\ stopClosed /\ ~ctxDone
    /\ \A f \in Feeds : task[f] = "exited"
    /\ recording = "exited"

\* C18: Run of the wrapper never starts the scheduling loop of the embedded
\* core: in every state reached by NewScheduler and Run the loop is not
\* started, whatever the feeds have synced.
C18_CoreLoopNeverStarted == coreLoop = "notstarted"

C18_Witness == RunReturned /\ runResult = "nil" /\ coreLoop = "notstarted" /\ ~AllSynced

\* C19: after a NewScheduler that succeeded with a probe that returned no
\* error, the configuration of the handle holds the broadcaster made by
\* getRecorderFactory, and Run, past its recording step, has started
\* recording; from the call of Run on, the handle and its configuration do
\* not change.
C19_HandleKeepsBroadcaster ==
    /\ []((sched = "handle" /\ probe = "ok") =>
            /\ schedConfig.Broadcaster = "new"
            /\ schedConfig.EventClient
            /\ PastRecording => recording # "none")
    /\ [][pc # "idle" => (schedConfig' = schedConfig /\ sched' = sched)]_vars

C19_Witness ==
    /\ sched = "handle" /\ probe = "ok" /\ cfg.Broadcaster = "nil"
    /\ pc = "podinformer" /\ recording = "live"

\* C20: NewScheduler launches nothing: as long as Run has not been called,
\* also after NewScheduler has returned a handle or an error or has
\* panicked, every feed is not started, no informer goroutine exists and
\* recording has not been started.
C20_NewLaunchesNothing ==
    pc = "idle" =>
        /\ \A f \in Feeds : task[f] = "none" /\ feedState[f] = "notstarted"
        /\ recording = "none"

C20_Witness == newPc = "returned" /\ sched = "handle" /\ pc = "idle" /\ stopClosed

\* Every registered feed has completed a MarkSynced call.
AllMarked == \A f \in gateRegistered : markCount[f] >= 1

\* C12: WaitForSync returns true exactly when every registered feed has
\* been marked synced: it has never returned true with a registered feed
\* unmarked, it does not stay blocked once all are marked, and, whatever the
\* order of the marks and however often a feed is marked again, it has
\* returned true and not false when all feeds were marked before the cancel
\* signal fired.
C12_WaitTrueIffAllMarked ==
    /\ gateWait = "true" => gateRegistered \subseteq gateBits
    /\ gateWait = "waiting" => ~(gateRegistered \subseteq gateBits)
    /\ (AllMarked /\ ~gateCancelFirst /\ gateWait # "idle") => gateWait = "true"
    /\ gateWait = "false" => gateCancelFirst

C12_Witness ==
    /\ gateWait = "true" /\ gateRegistered = GateFeeds /\ gateCancel
    /\ \A f \in GateFeeds : markCount[f] = MaxMarks

\* C17: when the tasks of the registered feeds mark their feeds
\* concurrently, no mark is lost: once every task has completed a call,
\* every registered feed's bit is set, and a WaitForSync that was not
\* cancelled first has returned true.
C17_NoLostMark ==
    AllMarked =>
        /\ gateRegistered \subseteq gateBits
        /\ gateWait = "waiting" => FALSE
        /\ (gateWait = "false") => gateCancelFirst

C17_Witness ==
    /\ gateRegistered = GateFeeds /\ gateBits = GateFeeds /\ gateWait = "true"
    /\ \A f \in GateFeeds : markCount[f] = 1
    /\ ~gateCancel

====
